---- MODULE Spec2Model ----
(***************************************************************************)
(* A model of json-validate (src/src/validate.ts): the matching engine     *)
(* validateJSON / validate2 / merge_result, the type predicates and the    *)
(* schema combinators.                                                     *)
(*                                                                         *)
(* JavaScript values are records tagged by "type".  Each type keeps its    *)
(* payload in fields of its own, so two records with the same fields       *)
(* always hold payloads of the same kind.  The prototype of a value is     *)
(* fixed by its tag: "object" has Object.prototype, "array" has            *)
(* Array.prototype, "regexp" has RegExp.prototype.                         *)
(***************************************************************************)
EXTENDS Integers, Sequences, FiniteSets, TLC

VARIABLES
    DEBUG,      \* validate.ts:6, read once when the module is loaded
    pc,         \* "idle" | "rejected" | "ready" | "done" | "thrown"
    expr,       \* the schema expression the caller wrote
    schema,     \* the schema the caller built (a JavaScript value)
    value,      \* the value handed to validateJSON
    result,     \* what validateJSON returned: true or the ErrorMap
    errors,     \* the accumulator of the top-level call when it returned
    calls,      \* the trace of validateJSON entries and exits of the call
    thrown      \* the message of the exception that escaped, or "none"

vars == <<DEBUG, pc, expr, schema, value, result, errors, calls, thrown>>

----------------------------------------------------------------------------
(* JavaScript values *)

Undefined == [type |-> "undefined"]
Null == [type |-> "null"]
Symbol == [type |-> "symbol"]
Bool(b) == [type |-> "boolean", bool |-> b]
\* A number is num/den; den = 0 is a non-finite number (0/0 NaN, 1/0 Infinity).
Frac(n, d) == [type |-> "number", num |-> n, den |-> d]
Num(n) == Frac(n, 1)
NaN == Frac(0, 0)
Infinity == Frac(1, 0)
Str(s) == [type |-> "string", str |-> s]
\* An own property: a data property unless accessor, with its enumerable bit.
Prop(k, v) == [key |-> k, val |-> v, enumerable |-> TRUE, accessor |-> FALSE]
\* An object with prototype Object.prototype; props in enumeration order.
Obj(ps) == [type |-> "object", props |-> ps, symbols |-> 0]
\* An array: its index properties and its length (the "length" property
\* itself, a non-enumerable data property, is implicit).
Arr(es) ==
    [type |-> "array", length |-> Len(es),
     props |-> [i \in 1..Len(es) |-> Prop(ToString(i - 1), es[i])],
     symbols |-> 0]
\* A regular expression: an optional ^, one atom repeated once or with +,
\* an optional $.  The atom is a literal string or a character class.
RegExp(anchorStart, atom, plus, anchorEnd) ==
    [type |-> "regexp", anchorStart |-> anchorStart, atom |-> atom,
     plus |-> plus, anchorEnd |-> anchorEnd]
Lit(s) == [class |-> "literal", chars |-> s]
\* A character class, by the characters it holds.
Class(chars) == [class |-> "range", chars |-> chars]
\* A function value: a named user function or exported predicate.
Fn(name) == [type |-> "function", fn |-> name]

True == Bool(TRUE)
False == Bool(FALSE)
EmptyObject == Obj(<<>>)

\* typeof v
TypeOf(v) ==
    IF v.type \in {"null", "array", "object", "regexp"} THEN "object" ELSE v.type

\* a === b, for b a primitive (validate.ts:60 compares with a literal schema)
StrictEquals(a, b) ==
    /\ a.type = b.type
    /\ CASE b.type = "boolean" -> a.bool = b.bool
         [] b.type = "string" -> a.str = b.str
         [] b.type = "number" -> a.den # 0 /\ b.den # 0 /\ a = b
         [] OTHER -> b.type \in {"null", "undefined"}

\* ToBoolean(v), as `!x` and `if (x)` coerce
ToBoolean(v) ==
    CASE v.type \in {"undefined", "null"} -> FALSE
      [] v.type = "boolean" -> v.bool
      [] v.type = "number" -> v.den # 0 /\ v.num # 0
      [] v.type = "string" -> v.str # ""
      [] OTHER -> TRUE

----------------------------------------------------------------------------
(* Strings *)

Digits == <<"0", "1", "2", "3", "4", "5", "6", "7", "8", "9">>
IsDigit(c) == \E d \in 1..Len(Digits) : Digits[d] = c
DigitValue(c) == (CHOOSE d \in 1..Len(Digits) : Digits[d] = c) - 1

RECURSIVE ParseDigits(_, _, _)
ParseDigits(s, i, acc) ==
    IF i > Len(s) THEN acc
    ELSE ParseDigits(s, i + 1, acc * 10 + DigitValue(SubSeq(s, i, i)))

\* Number(s) for the strings of the model: "" is 0, a run of decimal digits
\* is its value, anything else is NaN.  (No string of the model carries
\* white space, a sign, a fraction, an exponent or a radix prefix.)
StringToNumber(s) ==
    IF \A i \in 1..Len(s) : IsDigit(SubSeq(s, i, i))
    THEN Num(ParseDigits(s, 1, 0))
    ELSE NaN

\* The decimal text of a number of the model, as a template literal or
\* JSON.stringify prints it.
MAX_SAFE_INTEGER_TEXT == "9007199254740991"
\* Number.MAX_SAFE_INTEGER is 2^53 - 1; the model holds it as the largest
\* integer of the checker (2^31 - 1): lengths and counts stay far below both.
MAX_SAFE_INTEGER == 2147483647

NumberToString(v) ==
    CASE v.den = 0 -> IF v.num = 0 THEN "NaN" ELSE "Infinity"
      [] v.den = 1 ->
            IF v.num = MAX_SAFE_INTEGER THEN MAX_SAFE_INTEGER_TEXT
            ELSE ToString(v.num)
      [] OTHER -> ToString(v.num \div v.den) \o ".5"

\* JSON.stringify(v) for a literal schema (null, string, number, boolean);
\* no string of the model needs escaping.
JSONstringify(v) ==
    CASE v.type = "null" -> "null"
      [] v.type = "boolean" -> IF v.bool THEN "true" ELSE "false"
      [] v.type = "number" -> NumberToString(v)
      [] v.type = "string" -> "\"" \o v.str \o "\""

CharAt(s, i) == SubSeq(s, i + 1, i + 1)
CharIn(c, chars) == \E j \in 1..Len(chars) : SubSeq(chars, j, j) = c

\* Whether the pattern matches the string starting at index i (0-based).
MatchesAt(s, re, i) ==
    IF re.atom.class = "literal"
    THEN LET n == Len(re.atom.chars) IN
         /\ i + n <= Len(s)
         /\ SubSeq(s, i + 1, i + n) = re.atom.chars
         /\ re.anchorEnd => i + n = Len(s)
    ELSE /\ i < Len(s)
         /\ CharIn(CharAt(s, i), re.atom.chars)
         /\ re.anchorEnd =>
               IF re.plus
               THEN \A j \in i..(Len(s) - 1) : CharIn(CharAt(s, j), re.atom.chars)
               ELSE i + 1 = Len(s)

\* String.prototype.search: the index of the first match, or -1.
Search(s, re) ==
    LET starts == IF re.anchorStart THEN {0} ELSE 0..Len(s)
        found == {i \in starts : MatchesAt(s, re, i)}
    IN IF found = {} THEN -1
       ELSE CHOOSE i \in found : \A j \in found : i <= j

\* String.prototype.trim, white space being the blank.
RECURSIVE TrimStart(_)
TrimStart(s) ==
    IF Len(s) > 0 /\ CharAt(s, 0) = " " THEN TrimStart(SubSeq(s, 2, Len(s))) ELSE s
RECURSIVE TrimEnd(_)
TrimEnd(s) ==
    IF Len(s) > 0 /\ CharAt(s, Len(s) - 1) = " "
    THEN TrimEnd(SubSeq(s, 1, Len(s) - 1)) ELSE s
Trim(s) == TrimEnd(TrimStart(s))

----------------------------------------------------------------------------
(* Objects and their properties *)

\* The positions of the own property named k (at most one).
OwnIndex(o, k) == {i \in 1..Len(o.props) : o.props[i].key = k}
HasOwn(o, k) == OwnIndex(o, k) # {}
OwnProp(o, k) == o.props[CHOOSE i \in OwnIndex(o, k) : TRUE]

\* o[k] for an object or array: the own data property, else the inherited
\* one; of the prototypes' properties the code names only hasOwnProperty.
Get(o, k) ==
    IF HasOwn(o, k) THEN OwnProp(o, k).val
    ELSE IF k = "hasOwnProperty" THEN Fn("Object.prototype.hasOwnProperty")
    ELSE Undefined
\* a[i]
At(a, i) == Get(a, ToString(i))

\* o[k] = v on an ordinary object: overwrite in place, or append.
Put(o, k, v) ==
    IF HasOwn(o, k)
    THEN [o EXCEPT !.props =
            [i \in 1..Len(o.props) |->
                IF o.props[i].key = k THEN [o.props[i] EXCEPT !.val = v]
                ELSE o.props[i]]]
    ELSE [o EXCEPT !.props = Append(o.props, Prop(k, v))]

\* The names `for (prop in o)` visits: the enumerable own properties, in
\* order (neither Object.prototype nor Array.prototype has enumerable ones).
ForIn(o) ==
    LET idx == SelectSeq([i \in 1..Len(o.props) |-> i],
                         LAMBDA i : o.props[i].enumerable)
    IN [j \in 1..Len(idx) |-> o.props[idx[j]].key]

\* The keys of an ErrorMap (or any object), as a set.
Keys(o) == {o.props[i].key : i \in 1..Len(o.props)}

----------------------------------------------------------------------------
(* validate.ts:145-214, 427-431: the type predicates *)

boolean(v) == TypeOf(v) = "boolean"
number(v) == v.type = "number" /\ v.den # 0
integer(v) == v.type = "number" /\ v.den # 0 /\ v.num % v.den = 0
string(v) == TypeOf(v) = "string"
array(v) == v.type = "array"

plain_array(v) ==
    /\ array(v)
    /\ v.symbols = 0
    /\ \A i \in 1..Len(v.props) :
          LET desc == v.props[i]
              idx == StringToNumber(desc.key)
          IN /\ ~desc.accessor
             /\ desc.enumerable
             /\ integer(idx) /\ idx.num >= 0 /\ idx.num < v.length
    /\ Len(v.props) + 1 = v.length + 1

is_object(v) == v.type = "object"

is_plain_object(v) ==
    /\ is_object(v)
    /\ v.symbols = 0
    /\ \A i \in 1..Len(v.props) :
          ~v.props[i].accessor /\ v.props[i].enumerable

object_has_a_property(o) == Len(ForIn(o)) > 0

----------------------------------------------------------------------------
(* Outcomes.  A call either returns a value or throws; w is what the call  *)
(* reads and leaves behind: the DEBUG flag and the trace of validateJSON   *)
(* entries and exits.                                                      *)

Ok(v, w) == [val |-> v, exc |-> "none", w |-> w]
Throw(msg, w) == [val |-> Undefined, exc |-> msg, w |-> w]
\* DEBUG ? text : ''
Msg(w, text) == Str(IF w.DEBUG THEN text ELSE "")
Enter(w, s, v) ==
    [w EXCEPT !.calls = Append(@, [ev |-> "enter", schema |-> s, value |-> v])]
Exit(w, acc, ret) ==
    [w EXCEPT !.calls = Append(@, [ev |-> "exit", errors |-> acc, ret |-> ret])]
\* A user function throws: the trace keeps what it threw.
Raise(w, msg) == [w EXCEPT !.calls = Append(@, [ev |-> "throw", exc |-> msg])]

\* The rest of a computation F, run on what the call r returned, unless r
\* threw: an exception leaves through every caller.
Bind(r, F(_)) == IF r.exc # "none" THEN r ELSE F(r)

RECURSIVE validateJSON(_, _, _)
RECURSIVE validate2(_, _, _, _, _)
RECURSIVE Call(_, _, _, _)

\* o.hasOwnProperty(prop): the method is looked up on o itself, so an own
\* property of that name shadows Object.prototype.hasOwnProperty.
hasOwnProperty(o, prop, w) ==
    IF TypeOf(Get(o, "hasOwnProperty")) = "function"
    THEN Call(Get(o, "hasOwnProperty"), o, Str(prop), w)
    ELSE Throw("TypeError: hasOwnProperty is not a function", w)

----------------------------------------------------------------------------
(* validate.ts:124-142 *)

\* merge_entries writing each message at its sub-path alone
RECURSIVE merge_entries_unprefixed(_, _, _, _, _)
merge_entries_unprefixed(errs, path, res, keys, i) ==
    IF i > Len(keys) THEN errs
    ELSE merge_entries_unprefixed(Put(errs, keys[i], Get(res, keys[i])),
                                  path, res, keys, i + 1)

RECURSIVE merge_entries(_, _, _, _, _)
merge_entries(errs, path, res, keys, i) ==
    IF i > Len(keys) THEN errs
    ELSE merge_entries(Put(errs, path \o keys[i], Get(res, keys[i])),
                       path, res, keys, i + 1)

\* merge_result taking an empty string for no error
merge_result_truthy(errs, path, res, w) ==
    IF boolean(res) /\ res.bool THEN Ok(errs, w)
    ELSE IF boolean(res) /\ ~res.bool THEN Ok(Put(errs, path, Str("")), w)
    ELSE IF string(res)
    THEN Ok(IF res.str = "" THEN errs ELSE Put(errs, path, res), w)
    ELSE IF is_object(res)
    THEN Ok(merge_entries(errs, path, res, ForIn(res), 1), w)
    ELSE Throw("Invalid schema result encountered", w)

merge_result(errs, path, res, w) ==
    IF boolean(res) /\ res.bool THEN Ok(errs, w)
    ELSE IF boolean(res) /\ ~res.bool THEN Ok(Put(errs, path, Str("")), w)
    ELSE IF string(res) THEN Ok(Put(errs, path, res), w)
    ELSE IF is_object(res)
    THEN Ok(merge_entries(errs, path, res, ForIn(res), 1), w)
    ELSE Throw("Invalid schema result encountered", w)

----------------------------------------------------------------------------
(* validate.ts:40-120 *)

\* 42-46: a function as schema
validate2_function(sch, v, path, errs, w) ==
    Bind(Call(sch, Undefined, v, w),
         LAMBDA res : merge_result(errs, path, res.val, res.w))

\* validate2_regexp taking a match at index 0 for no match
validate2_regexp_positive(sch, v, path, errs, w) ==
    IF ~string(v) THEN Ok(Put(errs, path, Msg(w, "Expected string")), w)
    ELSE IF Search(v.str, sch) <= 0
    THEN Ok(Put(errs, path, Msg(w, "String value does not match regexp")), w)
    ELSE Ok(errs, w)

\* 48-57: a regular expression
validate2_regexp(sch, v, path, errs, w) ==
    IF ~string(v) THEN Ok(Put(errs, path, Msg(w, "Expected string")), w)
    ELSE IF Search(v.str, sch) < 0
    THEN Ok(Put(errs, path, Msg(w, "String value does not match regexp")), w)
    ELSE Ok(errs, w)

\* a == b for primitives: null and undefined are equal to each other only,
\* a boolean and a string are compared as numbers.
ToNumber(v) ==
    CASE v.type = "boolean" -> Num(IF v.bool THEN 1 ELSE 0)
      [] v.type = "string" -> StringToNumber(v.str)
      [] OTHER -> v
LooseEquals(a, b) ==
    IF a.type \in {"null", "undefined"} \/ b.type \in {"null", "undefined"}
    THEN a.type \in {"null", "undefined"} /\ b.type \in {"null", "undefined"}
    ELSE IF a.type = b.type THEN StrictEquals(a, b)
    ELSE /\ a.type \in {"boolean", "string", "number"}
         /\ StrictEquals(ToNumber(a), ToNumber(b))

\* validate2_literal comparing with == in place of ===
validate2_literal_loose(sch, v, path, errs, w) ==
    IF ~LooseEquals(v, sch)
    THEN Ok(Put(errs, path, Msg(w, "Expected " \o JSONstringify(sch))), w)
    ELSE Ok(errs, w)

\* 59-64: null, a string, a number or a boolean
validate2_literal(sch, v, path, errs, w) ==
    IF ~StrictEquals(v, sch)
    THEN Ok(Put(errs, path, Msg(w, "Expected " \o JSONstringify(sch))), w)
    ELSE Ok(errs, w)

\* 90-92: the elements, in index order
RECURSIVE validate2_elements(_, _, _, _, _, _)
validate2_elements(sch, v, path, errs, w, i) ==
    IF ~(i < v.length) THEN Ok(errs, w)
    ELSE Bind(validate2(At(sch, 0), At(v, i),
                        path \o "[" \o ToString(i) \o "]", errs, w),
              LAMBDA r : validate2_elements(sch, v, path, r.val, r.w, i + 1))

\* validate2_length reporting the length in an accumulator of its own
validate2_length_fresh(v, min, max, path, errs, w) ==
    IF v.length < min \/ v.length > max
    THEN Put(EmptyObject, path,
             Msg(w, "Array not of expected length: " \o NumberToString(Num(min))
                    \o " <= " \o ToString(v.length) \o " <= "
                    \o NumberToString(Num(max))))
    ELSE errs

\* 87-89: the length against [min, max]
validate2_length(v, min, max, path, errs, w) ==
    IF v.length < min \/ v.length > max
    THEN Put(errs, path,
             Msg(w, "Array not of expected length: " \o NumberToString(Num(min))
                    \o " <= " \o ToString(v.length) \o " <= "
                    \o NumberToString(Num(max))))
    ELSE errs

\* validate2_array returning once the length is found out of range
validate2_array_length_first(sch, v, path, errs, w) ==
    IF ~array(v) THEN Ok(Put(errs, path, Msg(w, "Expected array")), w)
    ELSE IF sch.length < 1 \/ sch.length > 3
    THEN Throw("Invalid schema at path '" \o path
               \o "': arrays must be of length 1 to 3", w)
    ELSE IF sch.length > 1 /\ (~integer(At(sch, 1)) \/ At(sch, 1).num < 0)
    THEN Throw("Invalid schema at path '" \o path
               \o "': array[0] must be a non-negative integer", w)
    ELSE IF sch.length > 2 /\ (~integer(At(sch, 2)) \/ At(sch, 2).num < 0)
    THEN Throw("Invalid schema at path '" \o path
               \o "': array[0] must be a non-negative integer", w)
    ELSE LET min == IF sch.length > 1 THEN At(sch, 1).num ELSE 0
             max == IF sch.length > 2 THEN At(sch, 2).num ELSE MAX_SAFE_INTEGER
         IN IF v.length < min \/ v.length > max
            THEN Ok(validate2_length(v, min, max, path, errs, w), w)
            ELSE validate2_elements(sch, v, path, errs, w, 0)

\* 66-94: an array by example
validate2_array(sch, v, path, errs, w) ==
    IF ~array(v) THEN Ok(Put(errs, path, Msg(w, "Expected array")), w)
    ELSE IF sch.length < 1 \/ sch.length > 3
    THEN Throw("Invalid schema at path '" \o path
               \o "': arrays must be of length 1 to 3", w)
    ELSE IF sch.length > 1 /\ (~integer(At(sch, 1)) \/ At(sch, 1).num < 0)
    THEN Throw("Invalid schema at path '" \o path
               \o "': array[0] must be a non-negative integer", w)
    ELSE IF sch.length > 2 /\ (~integer(At(sch, 2)) \/ At(sch, 2).num < 0)
    THEN Throw("Invalid schema at path '" \o path
               \o "': array[0] must be a non-negative integer", w)
    ELSE LET min == IF sch.length > 1 THEN At(sch, 1).num ELSE 0
             max == IF sch.length > 2 THEN At(sch, 2).num ELSE MAX_SAFE_INTEGER
         IN validate2_elements(sch, v, path,
                               validate2_length(v, min, max, path, errs, w), w, 0)

\* 108-115: every declared property, in the schema's order
RECURSIVE validate2_declared(_, _, _, _, _, _, _)
validate2_declared(sch, v, path, errs, w, props, i) ==
    IF i > Len(props) THEN Ok(errs, w)
    ELSE LET prop == props[i]
             subpath == path \o "." \o prop
         IN Bind(hasOwnProperty(v, prop, w), LAMBDA own :
            IF ~ToBoolean(own.val) \/ Get(v, prop).type = "undefined"
            THEN validate2_declared(sch, v, path,
                    Put(errs, subpath, Msg(own.w, "Missing property")),
                    own.w, props, i + 1)
            ELSE Bind(validate2(Get(sch, prop), Get(v, prop), subpath, errs, own.w),
                      LAMBDA r : validate2_declared(sch, v, path, r.val, r.w,
                                                    props, i + 1)))

\* 102-107: every property of the value, in the value's order; the first
\* undeclared one ends the node
RECURSIVE validate2_unexpected(_, _, _, _, _, _, _)
validate2_unexpected(sch, v, path, errs, w, props, i) ==
    IF i > Len(props) THEN validate2_declared(sch, v, path, errs, w, ForIn(sch), 1)
    ELSE Bind(hasOwnProperty(sch, props[i], w), LAMBDA own :
         IF ~ToBoolean(own.val)
         THEN Ok(Put(errs, path, Msg(own.w, "Unexpected property: " \o props[i])),
                 own.w)
         ELSE validate2_unexpected(sch, v, path, errs, own.w, props, i + 1))

\* 96-117: an object by example
validate2_object(sch, v, path, errs, w) ==
    IF ~is_object(v) THEN Ok(Put(errs, path, Msg(w, "Expected object")), w)
    ELSE validate2_unexpected(sch, v, path, errs, w, ForIn(v), 1)

\* validate2 reporting an unsupported schema as a mismatch of the value
validate2_lenient(sch, v, path, errs, w) ==
    IF TypeOf(sch) = "function" THEN validate2_function(sch, v, path, errs, w)
    ELSE IF sch.type = "regexp" THEN validate2_regexp(sch, v, path, errs, w)
    ELSE IF sch.type = "null" \/ string(sch) \/ number(sch) \/ boolean(sch)
    THEN validate2_literal(sch, v, path, errs, w)
    ELSE IF plain_array(sch) THEN validate2_array(sch, v, path, errs, w)
    ELSE IF is_plain_object(sch) THEN validate2_object(sch, v, path, errs, w)
    ELSE Ok(Put(errs, path, Msg(w, "Invalid schema")), w)

validate2(sch, v, path, errs, w) ==
    IF TypeOf(sch) = "function" THEN validate2_function(sch, v, path, errs, w)
    ELSE IF sch.type = "regexp" THEN validate2_regexp(sch, v, path, errs, w)
    ELSE IF sch.type = "null" \/ string(sch) \/ number(sch) \/ boolean(sch)
    THEN validate2_literal(sch, v, path, errs, w)
    ELSE IF plain_array(sch) THEN validate2_array(sch, v, path, errs, w)
    ELSE IF is_plain_object(sch) THEN validate2_object(sch, v, path, errs, w)
    ELSE Throw("Invalid schema at path '" \o path \o "'", w)

\* validateJSON without the reduction of an empty accumulator to true
validateJSON_returns_errors(sch, v, w) ==
    Bind(validate2(sch, v, "", EmptyObject, Enter(w, sch, v)),
         LAMBDA r : Ok(r.val, Exit(r.w, r.val, r.val)))

\* validateJSON going on with the accumulator that the call before it left
validateJSON_shared_accumulator(sch, v, w) ==
    LET exits == {i \in 1..Len(w.calls) : w.calls[i].ev = "exit"}
        left == IF exits = {} THEN EmptyObject
                ELSE w.calls[CHOOSE i \in exits : \A j \in exits : j <= i].errors
    IN Bind(validate2(sch, v, "", left, Enter(w, sch, v)), LAMBDA r :
            IF object_has_a_property(r.val)
            THEN Ok(r.val, Exit(r.w, r.val, r.val))
            ELSE Ok(True, Exit(r.w, r.val, True)))

\* validate.ts:29-38
validateJSON(sch, v, w) ==
    Bind(validate2(sch, v, "", EmptyObject, Enter(w, sch, v)), LAMBDA r :
         IF object_has_a_property(r.val)
         THEN Ok(r.val, Exit(r.w, r.val, r.val))
         ELSE Ok(True, Exit(r.w, r.val, True)))

----------------------------------------------------------------------------
(* validate.ts:216-272: object(...args) and the validator it returns.      *)
(* A validator built by a combinator is a function value that carries what *)
(* its closure captured.                                                   *)

\* args[i] with a destructuring default
ArgOr(args, i, default) ==
    IF i <= Len(args) /\ args[i].type # "undefined" THEN args[i] ELSE default

\* 232-236: no property both required and optional
RECURSIVE object_disjoint(_, _, _, _, _)
object_disjoint(required, optional, w, props, i) ==
    IF i > Len(props) THEN Ok(True, w)
    ELSE Bind(hasOwnProperty(optional, props[i], w), LAMBDA own :
         IF ToBoolean(own.val)
         THEN Throw("Invalid schema: property " \o props[i]
                    \o " must not be both required and optional", own.w)
         ELSE object_disjoint(required, optional, own.w, props, i + 1))

object(args, w) ==
    IF Len(args) = 1 THEN Ok(Bool(is_object(args[1])), w)
    ELSE IF Len(args) < 1 \/ Len(args) > 4
    THEN Throw("object: wrong number of arguments", w)
    ELSE LET required_properties == ArgOr(args, 1, Undefined)
             optional_properties == ArgOr(args, 2, Null)
             min_optional_properties == ArgOr(args, 3, Num(0))
             max_optional_properties == ArgOr(args, 4, Num(MAX_SAFE_INTEGER))
         IN IF ~is_plain_object(required_properties)
               \/ ~is_plain_object(optional_properties)
            THEN Throw("Invalid schema", w)
            ELSE Bind(object_disjoint(required_properties, optional_properties,
                                      w, ForIn(required_properties), 1),
                      LAMBDA d :
                        Ok([type |-> "function", fn |-> "object(...)",
                            required_properties |-> required_properties,
                            optional_properties |-> optional_properties,
                            min_optional_properties |-> min_optional_properties,
                            max_optional_properties |-> max_optional_properties],
                           d.w))

\* 258-269: the optional properties the value has, validated and counted
RECURSIVE object_optional(_, _, _, _, _, _, _)
object_optional(f, v, errs, w, props, i, count) ==
    IF i > Len(props)
    THEN IF count < f.min_optional_properties.num
            \/ count > f.max_optional_properties.num
         THEN Ok(Put(errs, "", Msg(w, "Wrong number of optional properties")), w)
         ELSE Ok(errs, w)
    ELSE LET prop == props[i] IN
         Bind(hasOwnProperty(v, prop, w), LAMBDA own :
            IF ~ToBoolean(own.val)
            THEN object_optional(f, v, errs, own.w, props, i + 1, count)
            ELSE Bind(validate2(Get(f.optional_properties, prop), Get(v, prop),
                                "." \o prop, errs, own.w),
                      LAMBDA r : object_optional(f, v, r.val, r.w, props, i + 1,
                                                 count + 1)))

\* 250-257: the required properties
RECURSIVE object_required(_, _, _, _, _, _)
object_required(f, v, errs, w, props, i) ==
    IF i > Len(props)
    THEN object_optional(f, v, errs, w, ForIn(f.optional_properties), 1, 0)
    ELSE LET prop == props[i]
             path == "." \o prop
         IN Bind(hasOwnProperty(v, prop, w), LAMBDA own :
            IF ~ToBoolean(own.val) \/ Get(v, prop).type = "undefined"
            THEN object_required(f, v,
                    Put(errs, path, Msg(own.w, "Missing property " \o prop)),
                    own.w, props, i + 1)
            ELSE Bind(validate2(Get(f.required_properties, prop), Get(v, prop),
                                path, errs, own.w),
                      LAMBDA r : object_required(f, v, r.val, r.w, props, i + 1)))

\* object_unexpected letting every property of the value pass
object_unexpected_ignored(f, v, w, props, i) ==
    object_required(f, v, EmptyObject, w, ForIn(f.required_properties), 1)

\* 243-247: the first property that is neither required nor optional ends
\* the validator
RECURSIVE object_unexpected(_, _, _, _, _)
object_unexpected(f, v, w, props, i) ==
    IF i > Len(props)
    THEN object_required(f, v, EmptyObject, w, ForIn(f.required_properties), 1)
    ELSE Bind(hasOwnProperty(f.required_properties, props[i], w), LAMBDA req :
         IF ToBoolean(req.val)
         THEN object_unexpected(f, v, req.w, props, i + 1)
         ELSE IF f.optional_properties.type = "null"
         THEN Ok(Msg(req.w, "Unexpected property: " \o props[i]), req.w)
         ELSE Bind(hasOwnProperty(f.optional_properties, props[i], req.w),
                   LAMBDA opt :
                     IF ~ToBoolean(opt.val)
                     THEN Ok(Msg(opt.w, "Unexpected property: " \o props[i]), opt.w)
                     ELSE object_unexpected(f, v, opt.w, props, i + 1)))

\* 238-271
object_validator(f, v, w) ==
    IF ~is_object(v) THEN Ok(Msg(w, "Expected object"), w)
    ELSE object_unexpected(f, v, w, ForIn(v), 1)

----------------------------------------------------------------------------
(* validate.ts:274-288 *)

plain_object(args, w) ==
    IF Len(args) = 1 THEN Ok(Bool(is_plain_object(args[1])), w)
    ELSE Bind(object(args, w), LAMBDA sch :
              Ok([type |-> "function", fn |-> "plain_object(...)",
                  schema |-> sch.val], sch.w))

plain_object_validator(f, v, w) ==
    IF ~is_plain_object(v) THEN Ok(Msg(w, "Expected plain object"), w)
    ELSE Call(f.schema, Undefined, v, w)

(* validate.ts:291-312 *)

partial_object(properties, w) ==
    IF ~is_plain_object(properties) THEN Throw("Invalid schema", w)
    ELSE Ok([type |-> "function", fn |-> "partial_object(...)",
             properties |-> properties], w)

\* 302-309
RECURSIVE partial_object_properties(_, _, _, _, _, _)
partial_object_properties(f, v, errs, w, props, i) ==
    IF i > Len(props) THEN Ok(errs, w)
    ELSE LET prop == props[i]
             path == "." \o prop
         IN Bind(hasOwnProperty(v, prop, w), LAMBDA own :
            IF ~ToBoolean(own.val) \/ Get(v, prop).type = "undefined"
            THEN partial_object_properties(f, v,
                    Put(errs, path, Msg(own.w, "Missing property " \o prop)),
                    own.w, props, i + 1)
            ELSE Bind(validate2(Get(f.properties, prop), Get(v, prop), path,
                                errs, own.w),
                      LAMBDA r : partial_object_properties(f, v, r.val, r.w,
                                                           props, i + 1)))

\* 296-311
partial_object_validator(f, v, w) ==
    IF ~is_object(v) THEN Ok(Msg(w, "Expected object"), w)
    ELSE partial_object_properties(f, v, EmptyObject, w, ForIn(f.properties), 1)

(* validate.ts:314-333.  schemata, the rest parameter, is a sequence. *)

tuple(schemata, w) ==
    IF Len(schemata) < 1
    THEN Throw("Invalid schema: tuple needs at least one schema", w)
    ELSE Ok([type |-> "function", fn |-> "tuple(...)", schemata |-> schemata], w)

\* 328-330
RECURSIVE tuple_elements(_, _, _, _, _)
tuple_elements(f, v, errs, w, i) ==
    IF ~(i < Len(f.schemata)) THEN Ok(errs, w)
    ELSE Bind(validate2(f.schemata[i + 1], At(v, i),
                        "[" \o ToString(i) \o "]", errs, w),
              LAMBDA r : tuple_elements(f, v, r.val, r.w, i + 1))

\* tuple_validator checking the elements of an array of the wrong length too
tuple_validator_any_length(f, v, w) ==
    IF ~array(v)
    THEN Ok(IF w.DEBUG THEN Str("Expected array") ELSE False, w)
    ELSE Bind(tuple_elements(f, v, EmptyObject, w, 0), LAMBDA r :
         IF v.length # Len(f.schemata)
         THEN Ok(Put(r.val, "", Msg(r.w, "Unexpected length of tuple")), r.w)
         ELSE r)

\* 319-332
tuple_validator(f, v, w) ==
    IF ~array(v)
    THEN Ok(IF w.DEBUG THEN Str("Expected array") ELSE False, w)
    ELSE IF v.length # Len(f.schemata)
    THEN Ok(IF w.DEBUG
            THEN Str("Unexpected length of tuple, got " \o ToString(v.length)
                     \o ", expected " \o ToString(Len(f.schemata)))
            ELSE False, w)
    ELSE tuple_elements(f, v, EmptyObject, w, 0)

(* validate.ts:335-358 *)

map(args, w) ==
    Ok([type |-> "function", fn |-> "map(...)",
        key_schema |-> ArgOr(args, 1, Undefined),
        value_schema |-> ArgOr(args, 2, Undefined),
        min_entries |-> ArgOr(args, 3, Num(0)),
        max_entries |-> ArgOr(args, 4, Num(MAX_SAFE_INTEGER))], w)

\* map_values reporting a wrong number of entries instead of the values
RECURSIVE map_values_or_count(_, _, _, _, _, _, _)
map_values_or_count(f, v, errs, w, keys, i, entries) ==
    IF i > Len(keys)
    THEN IF entries < f.min_entries.num
         THEN Ok(Put(EmptyObject, "", Msg(w, "Not enough entries in the map")), w)
         ELSE IF entries > f.max_entries.num
         THEN Ok(Put(EmptyObject, "", Msg(w, "Too many entries in the map")), w)
         ELSE Ok(errs, w)
    ELSE Bind(validate2(f.value_schema, Get(v, keys[i]), "." \o keys[i], errs, w),
              LAMBDA r : map_values_or_count(f, v, r.val, r.w, keys, i + 1,
                                             entries + 1))

\* 346-356: every value, then the number of entries
RECURSIVE map_values(_, _, _, _, _, _, _)
map_values(f, v, errs, w, keys, i, entries) ==
    IF i > Len(keys)
    THEN LET few == IF entries < f.min_entries.num
                    THEN Put(errs, "", Msg(w, "Not enough entries in the map"))
                    ELSE errs
             many == IF entries > f.max_entries.num
                     THEN Put(few, "", Msg(w, "Too many entries in the map"))
                     ELSE few
         IN Ok(many, w)
    ELSE Bind(validate2(f.value_schema, Get(v, keys[i]), "." \o keys[i], errs, w),
              LAMBDA r : map_values(f, v, r.val, r.w, keys, i + 1, entries + 1))

\* map_keys going on to the values after a key has failed, and reporting the
\* key at the end
RECURSIVE map_keys_then_values(_, _, _, _, _)
map_keys_then_values(f, v, w, keys, i) ==
    IF i > Len(keys) THEN map_values(f, v, EmptyObject, w, ForIn(v), 1, 0)
    ELSE Bind(validateJSON(f.key_schema, Str(keys[i]), w), LAMBDA r :
         IF ~(boolean(r.val) /\ r.val.bool)
         THEN Bind(map_values(f, v, EmptyObject, r.w, ForIn(v), 1, 0), LAMBDA m :
                   Ok(Put(m.val, "", Msg(m.w, "Unexpected property " \o keys[i])),
                      m.w))
         ELSE map_keys_then_values(f, v, r.w, keys, i + 1))

\* 341-344: every key, before any value
RECURSIVE map_keys(_, _, _, _, _)
map_keys(f, v, w, keys, i) ==
    IF i > Len(keys) THEN map_values(f, v, EmptyObject, w, ForIn(v), 1, 0)
    ELSE Bind(validateJSON(f.key_schema, Str(keys[i]), w), LAMBDA r :
         IF ~(boolean(r.val) /\ r.val.bool)
         THEN Ok(Msg(r.w, "Unexpected property " \o keys[i]), r.w)
         ELSE map_keys(f, v, r.w, keys, i + 1))

\* 336-357
map_validator(f, v, w) ==
    IF ~is_object(v) THEN Ok(Msg(w, "Map is not an object"), w)
    ELSE map_keys(f, v, w, ForIn(v), 1)

----------------------------------------------------------------------------
(* validate.ts:361-375: and short-circuits *)

and(schemata, w) ==
    IF Len(schemata) < 1
    THEN Throw("Invalid schema: and needs at least one schema", w)
    ELSE Ok([type |-> "function", fn |-> "and(...)", schemata |-> schemata], w)

\* and going on after a schema has failed: the last failure is returned
RECURSIVE and_validator_from_exhaustive(_, _, _, _)
and_validator_from_exhaustive(f, v, w, i) ==
    IF i > Len(f.schemata) THEN Ok(True, w)
    ELSE Bind(validateJSON(f.schemata[i], v, w), LAMBDA res :
         Bind(and_validator_from_exhaustive(f, v, res.w, i + 1), LAMBDA rest :
              IF boolean(rest.val) /\ rest.val.bool THEN Ok(res.val, rest.w)
              ELSE rest))

RECURSIVE and_validator_from(_, _, _, _)
and_validator_from(f, v, w, i) ==
    IF i > Len(f.schemata) THEN Ok(True, w)
    ELSE Bind(validateJSON(f.schemata[i], v, w), LAMBDA res :
         IF ~(boolean(res.val) /\ res.val.bool) THEN res
         ELSE and_validator_from(f, v, res.w, i + 1))

and_validator(f, v, w) == and_validator_from(f, v, w, 1)

(* validate.ts:378-391: and_all runs every schema *)

and_all(schemata, w) ==
    IF Len(schemata) < 1
    THEN Throw("Invalid schema: and needs at least one schema", w)
    ELSE Ok([type |-> "function", fn |-> "and_all(...)", schemata |-> schemata], w)

\* and_all stopping at the first schema that fails
RECURSIVE and_all_validator_from_first_failure(_, _, _, _, _)
and_all_validator_from_first_failure(f, v, errs, w, i) ==
    IF i > Len(f.schemata) THEN Ok(errs, w)
    ELSE Bind(validateJSON(f.schemata[i], v, w), LAMBDA res :
         Bind(merge_result(errs, "", res.val, res.w), LAMBDA m :
              IF boolean(res.val) /\ res.val.bool
              THEN and_all_validator_from_first_failure(f, v, m.val, m.w, i + 1)
              ELSE m))

\* and_all keeping the result of its last schema alone
RECURSIVE and_all_validator_from_last_result(_, _, _, _, _)
and_all_validator_from_last_result(f, v, errs, w, i) ==
    IF i > Len(f.schemata) THEN Ok(errs, w)
    ELSE Bind(validateJSON(f.schemata[i], v, w), LAMBDA res :
         Bind(merge_result(EmptyObject, "", res.val, res.w),
              LAMBDA m : and_all_validator_from_last_result(f, v, m.val, m.w,
                                                            i + 1)))

RECURSIVE and_all_validator_from(_, _, _, _, _)
and_all_validator_from(f, v, errs, w, i) ==
    IF i > Len(f.schemata) THEN Ok(errs, w)
    ELSE Bind(validateJSON(f.schemata[i], v, w), LAMBDA res :
         Bind(merge_result(errs, "", res.val, res.w),
              LAMBDA m : and_all_validator_from(f, v, m.val, m.w, i + 1)))

and_all_validator(f, v, w) == and_all_validator_from(f, v, EmptyObject, w, 1)

(* validate.ts:393-405 *)

or(schemata, w) ==
    IF Len(schemata) < 1
    THEN Throw("Invalid schema: or needs at least one schema", w)
    ELSE Ok([type |-> "function", fn |-> "or(...)", schemata |-> schemata], w)

\* or returning what its last variant reported
RECURSIVE or_validator_from_last_variant(_, _, _, _)
or_validator_from_last_variant(f, v, w, i) ==
    IF i > Len(f.schemata)
    THEN Ok(Msg(w, "or: value does not match any variant"), w)
    ELSE Bind(validateJSON(f.schemata[i], v, w), LAMBDA res :
         IF boolean(res.val) /\ res.val.bool THEN Ok(True, res.w)
         ELSE IF i = Len(f.schemata) THEN res
         ELSE or_validator_from_last_variant(f, v, res.w, i + 1))

\* A call whose exception is caught and taken for a mismatch
Caught(r) == IF r.exc # "none" THEN Ok(False, r.w) ELSE r

\* or taking a variant that throws for one that does not match
RECURSIVE or_validator_from_catching(_, _, _, _)
or_validator_from_catching(f, v, w, i) ==
    IF i > Len(f.schemata)
    THEN Ok(Msg(w, "or: value does not match any variant"), w)
    ELSE Bind(Caught(validateJSON(f.schemata[i], v, w)), LAMBDA res :
         IF boolean(res.val) /\ res.val.bool THEN Ok(True, res.w)
         ELSE or_validator_from_catching(f, v, res.w, i + 1))

RECURSIVE or_validator_from(_, _, _, _)
or_validator_from(f, v, w, i) ==
    IF i > Len(f.schemata)
    THEN Ok(Msg(w, "or: value does not match any variant"), w)
    ELSE Bind(validateJSON(f.schemata[i], v, w), LAMBDA res :
         IF boolean(res.val) /\ res.val.bool THEN Ok(True, res.w)
         ELSE or_validator_from(f, v, res.w, i + 1))

or_validator(f, v, w) == or_validator_from(f, v, w, 1)

----------------------------------------------------------------------------
(* The functions a schema can hold, applied to one argument: the exported  *)
(* predicates and combinators of validate.ts, the validators the           *)
(* combinators return, and the user functions of the test suite.           *)

\* (s) => s === s.trim()
is_trimmed(s, w) ==
    IF string(s) THEN Ok(Bool(s.str = Trim(s.str)), w)
    ELSE IF s.type \in {"undefined", "null"}
    THEN Throw("TypeError: Cannot read properties of " \o s.type,
               Raise(w, "TypeError: Cannot read properties of " \o s.type))
    ELSE Throw("TypeError: s.trim is not a function",
               Raise(w, "TypeError: s.trim is not a function"))

Call(f, this, arg, w) ==
    CASE f.fn = "Object.prototype.hasOwnProperty" ->
            Ok(Bool(HasOwn(this, arg.str)), w)
      [] f.fn = "boolean" -> Ok(Bool(boolean(arg)), w)
      [] f.fn = "number" -> Ok(Bool(number(arg)), w)
      [] f.fn = "integer" -> Ok(Bool(integer(arg)), w)
      [] f.fn = "string" -> Ok(Bool(string(arg)), w)
      [] f.fn = "array" -> Ok(Bool(array(arg)), w)
      [] f.fn = "plain_array" -> Ok(Bool(plain_array(arg)), w)
      [] f.fn = "object" -> object(<<arg>>, w)
      [] f.fn = "plain_object" -> plain_object(<<arg>>, w)
      [] f.fn = "partial_object" -> partial_object(arg, w)
      [] f.fn = "tuple" -> tuple(<<arg>>, w)
      [] f.fn = "map" -> map(<<arg>>, w)
      [] f.fn = "and" -> and(<<arg>>, w)
      [] f.fn = "and_all" -> and_all(<<arg>>, w)
      [] f.fn = "or" -> or(<<arg>>, w)
      [] f.fn = "object(...)" -> object_validator(f, arg, w)
      [] f.fn = "plain_object(...)" -> plain_object_validator(f, arg, w)
      [] f.fn = "partial_object(...)" -> partial_object_validator(f, arg, w)
      [] f.fn = "tuple(...)" -> tuple_validator(f, arg, w)
      [] f.fn = "map(...)" -> map_validator(f, arg, w)
      [] f.fn = "and(...)" -> and_validator(f, arg, w)
      [] f.fn = "and_all(...)" -> and_all_validator(f, arg, w)
      [] f.fn = "or(...)" -> or_validator(f, arg, w)
      [] f.fn = "() => true" -> Ok(True, w)
      [] f.fn = "() => false" -> Ok(False, w)
      [] f.fn = "() => 'Error'" -> Ok(Str("Error"), w)
      [] f.fn = "() => ({})" -> Ok(EmptyObject, w)
      [] f.fn = "() => null" -> Ok(Null, w)
      [] f.fn = "(v) => v === 13" -> Ok(Bool(StrictEquals(arg, Num(13))), w)
      [] f.fn = "(s) => s === s.trim()" -> is_trimmed(arg, w)

----------------------------------------------------------------------------
(* The caller: a schema is written as an expression (literals and calls of *)
(* the combinators, as in the test suite) and evaluated before validateJSON *)
(* is called.  Arguments are evaluated left to right, innermost first; a   *)
(* combinator that throws ends the evaluation.                             *)

CallOf(fn, args) == [type |-> "call", fn |-> fn, args |-> args]

Apply(fn, args, w) ==
    CASE fn = "object" -> object(args, w)
      [] fn = "plain_object" -> plain_object(args, w)
      [] fn = "partial_object" -> partial_object(ArgOr(args, 1, Undefined), w)
      [] fn = "tuple" -> tuple(args, w)
      [] fn = "map" -> map(args, w)
      [] fn = "and" -> and(args, w)
      [] fn = "and_all" -> and_all(args, w)
      [] fn = "or" -> or(args, w)

RECURSIVE Build(_, _)
RECURSIVE BuildArgs(_, _, _, _)
BuildArgs(es, w, i, done) ==
    IF i > Len(es) THEN Ok(done, w)
    ELSE Bind(Build(es[i], w),
              LAMBDA b : BuildArgs(es, b.w, i + 1, Append(done, b.val)))

RECURSIVE BuildProps(_, _, _, _)
BuildProps(ps, w, i, done) ==
    IF i > Len(ps) THEN Ok(done, w)
    ELSE Bind(Build(ps[i].val, w), LAMBDA b :
              BuildProps(ps, b.w, i + 1, Append(done, [ps[i] EXCEPT !.val = b.val])))

Build(e, w) ==
    IF e.type = "call"
    THEN Bind(BuildArgs(e.args, w, 1, <<>>), LAMBDA a : Apply(e.fn, a.val, a.w))
    ELSE IF e.type \in {"array", "object"}
    THEN Bind(BuildProps(e.props, w, 1, <<>>),
              LAMBDA b : Ok([e EXCEPT !.props = b.val], b.w))
    ELSE Ok(e, w)

----------------------------------------------------------------------------
(* The inputs: values as JSON.parse yields them (and undefined, NaN), and  *)
(* schema expressions after the test suite and the README.                 *)

MaxArrayLength == 3
MaxSchemata == 2

\* All sequences over S of length lo..hi
SeqsOf(S, lo, hi) == UNION {[1..n -> S] : n \in lo..hi}

Primitives ==
    {Undefined, Null, True, False, Num(0), Num(1), Num(2), Num(13), Frac(3, 2),
     NaN, Str(""), Str("0"), Str("1"), Str("s"), Str("S"), Str("a"),
     Str("world"), Str("hello world!"), Str(" x ")}

ElementValues == {Num(1), Str("a")}
Arrays == {Arr(es) : es \in SeqsOf(ElementValues, 0, MaxArrayLength)}

PropertyNames == <<"a", "b", "c">>
Absent == [type |-> "absent"]
PropertyValues == {Absent, Undefined, Str(""), Num(1)}
\* The object that holds, in the order of PropertyNames, the properties
\* that f does not leave absent.
ObjectOf(f) ==
    LET idx == SelectSeq([i \in 1..Len(PropertyNames) |-> i],
                         LAMBDA i : f[i] # Absent)
    IN Obj([j \in 1..Len(idx) |-> Prop(PropertyNames[idx[j]], f[idx[j]])])
Objects == {ObjectOf(f) : f \in [1..Len(PropertyNames) -> PropertyValues]}

\* Integer-like keys come first in an object's property order.
Nested ==
    {Arr(<<Arr(<<Num(1), Num(2)>>)>>),
     Arr(<<Arr(<<Str("a")>>), Arr(<<Str("a"), Num(1)>>)>>),
     Arr(<<Num(1), Frac(3, 2), Str("1")>>),
     Obj(<<Prop("hasOwnProperty", Num(1))>>),
     Obj(<<Prop("a", Num(1)), Prop("hasOwnProperty", Num(2))>>),
     Obj(<<Prop("1", Num(1))>>),
     Obj(<<Prop("1", Str(""))>>),
     Obj(<<Prop("1", Num(1)), Prop("2", Num(2))>>),
     Obj(<<Prop("1", Num(1)), Prop("2", Num(2)), Prop("3", Num(3))>>),
     Obj(<<Prop("1", Str("")), Prop("2", Num(2)), Prop("3", Num(3))>>),
     Obj(<<Prop("2", Num(2)), Prop("a", Str(""))>>),
     Obj(<<Prop("9", Arr(<<Str("")>>)), Prop("a", Arr(<<Num(1), Str("2")>>))>>),
     Obj(<<Prop("a", Arr(<<Num(1), Num(2)>>))>>),
     Obj(<<Prop("a", Obj(<<Prop("b", Num(1))>>))>>),
     Obj(<<Prop("a", Obj(<<Prop("b", Num(2)), Prop("c", Num(1))>>))>>),
     Obj(<<Prop("a", Arr(<<Frac(3, 2), Num(2), Str("3")>>)), Prop("b", Num(1))>>),
     Obj(<<Prop("c", Num(1)), Prop("a", Str(""))>>)}

Values == Primitives \cup Arrays \cup Objects \cup Nested

\* Regular expressions of the test suite
re_world == RegExp(FALSE, Lit("world"), FALSE, FALSE)          \* /world/
re_world_only == RegExp(TRUE, Lit("world"), FALSE, TRUE)       \* /^world$/
re_1 == RegExp(FALSE, Lit("1"), FALSE, FALSE)                  \* /1/
re_digits == RegExp(FALSE, Class("0123456789"), TRUE, FALSE)   \* /[0-9]+/
re_letters ==                                                  \* /[a-z]+/
    RegExp(FALSE, Class("abcdefghijklmnopqrstuvwxyz"), TRUE, FALSE)
re_userid ==                                                   \* /^[a-z]+/
    RegExp(TRUE, Class("abcdefghijklmnopqrstuvwxyz"), TRUE, FALSE)

Functions ==
    {Fn("() => true"), Fn("() => false"), Fn("() => 'Error'"), Fn("() => ({})"),
     Fn("(v) => v === 13"), Fn("(s) => s === s.trim()"),
     Fn("boolean"), Fn("number"), Fn("integer"), Fn("string"), Fn("array"),
     Fn("object")}

Patterns == {re_world, re_world_only, re_1, re_digits, re_letters, re_userid}

Literals == {Null, True, Num(0), Num(1), Str("1"), Str("s"), Str("")}

ArraysByExample ==
    {Arr(<<Fn("string")>>),
     Arr(<<Fn("integer"), Num(1), Num(2)>>),
     Arr(<<Fn("integer"), Num(1)>>),
     Arr(<<Num(1), Num(2), Num(1)>>),
     Arr(<<Fn("() => false")>>),
     Arr(<<Arr(<<Fn("string")>>)>>),
     Arr(<<Arr(<<Fn("integer"), Num(0), Num(1)>>), Num(2)>>),
     Arr(<<CallOf("tuple", <<Num(1), Num(2)>>)>>),
     Arr(<<Obj(<<Prop("b", Num(1))>>)>>)}

ObjectsByExample ==
    {Obj(<<>>),
     Obj(<<Prop("a", Fn("string")), Prop("b", Fn("number"))>>),
     Obj(<<Prop("b", Num(1)), Prop("a", Str(""))>>),
     Obj(<<Prop("a", Obj(<<Prop("b", Num(1))>>))>>),
     Obj(<<Prop("a", Arr(<<Fn("integer")>>)), Prop("b", Fn("string"))>>),
     Obj(<<Prop("a", CallOf("or", <<Null, Fn("string")>>)),
           Prop("c", CallOf("and", <<Fn("string"), Fn("(s) => s === s.trim()")>>))>>),
     Obj(<<Prop("hasOwnProperty", Num(1))>>),
     Obj(<<Prop("a", Num(1)), Prop("hasOwnProperty", Fn("string"))>>)}

a_string == Obj(<<Prop("a", Fn("string"))>>)
bc_strings == Obj(<<Prop("b", Fn("string")), Prop("c", Fn("string"))>>)
abc_strings ==
    Obj(<<Prop("a", Fn("string")), Prop("b", Fn("string")), Prop("c", Fn("string"))>>)

Combined ==
    {CallOf("object", <<a_string, bc_strings>>),
     CallOf("object", <<Obj(<<>>), abc_strings, Num(1), Num(2)>>),
     CallOf("object", <<a_string, Obj(<<>>)>>),
     CallOf("object", <<a_string>>),
     CallOf("object", <<a_string, Obj(<<Prop("a", Fn("string")),
                                        Prop("hasOwnProperty", Fn("number"))>>)>>),
     CallOf("object", <<Obj(<<>>), Obj(<<Prop("hasOwnProperty", Fn("string"))>>)>>),
     CallOf("object", <<Obj(<<Prop("a", Fn("string")), Prop("b", Fn("number"))>>),
                        Obj(<<>>)>>),
     CallOf("plain_object", <<a_string, bc_strings>>),
     CallOf("partial_object", <<Obj(<<Prop("a", Num(1))>>)>>),
     CallOf("partial_object", <<Obj(<<Prop("a", Fn("string")), Prop("b", Num(1))>>)>>),
     CallOf("tuple", <<Fn("number"), Fn("string")>>),
     CallOf("tuple", <<Num(1), Str("a"), Num(1)>>),
     CallOf("tuple", <<CallOf("or", <<Num(1), Null>>), Fn("string")>>),
     CallOf("map", <<re_digits, Fn("integer"), Num(1), Num(2)>>),
     CallOf("map", <<re_letters, Arr(<<Fn("integer")>>)>>),
     CallOf("map", <<re_letters, Fn("string")>>),
     CallOf("map", <<re_letters, CallOf("or", <<Num(1), Fn("string")>>)>>),
     CallOf("or", <<Fn("(v) => v === 13"), Num(1), Str("s")>>),
     CallOf("or", <<Num(1), Str("s"), True>>),
     CallOf("or", <<Fn("integer"), Null>>),
     CallOf("and", <<Fn("string"), Fn("(s) => s === s.trim()")>>),
     CallOf("and", <<Fn("(s) => s === s.trim()"), Fn("string")>>),
     CallOf("and", <<Fn("number"), Num(1), Fn("() => 'Error'")>>),
     CallOf("and_all", <<Fn("number"), Num(1)>>),
     CallOf("and_all", <<Fn("number"), Fn("() => 'Error'"), Num(1)>>),
     CallOf("and", <<CallOf("or", <<Num(1), Str("s")>>), Fn("string")>>),
     CallOf("or", <<CallOf("and_all", <<Fn("number"), Num(1)>>), a_string>>)}

\* Objects and arrays that are not plain (part_000:363-393)
with_getter ==                  \* Object.defineProperty(schema, 'foo', {get})
    [EmptyObject EXCEPT
        !.props = <<[key |-> "foo", val |-> Undefined, enumerable |-> FALSE,
                     accessor |-> TRUE]>>]
with_symbol == [EmptyObject EXCEPT !.symbols = 1]     \* schema[Symbol()] = true
strings == Arr(<<Str("string")>>)                     \* ['string']
with_hole ==                                          \* schema[2] = 0
    [strings EXCEPT !.length = 3, !.props = Append(@, Prop("2", Num(0)))]
with_foo == [strings EXCEPT !.props = Append(@, Prop("foo", Str("")))]
array_with_symbol == [strings EXCEPT !.symbols = 1]

\* Expressions that are not schemata, or whose evaluation throws
Invalid ==
    {Symbol, Undefined, Fn("tuple"), Fn("() => null"), NaN,
     with_getter, with_symbol, with_hole, with_foo, array_with_symbol,
     Arr(<<Symbol>>), Arr(<<Fn("() => null"), Num(1)>>),
     Obj(<<Prop("a", Symbol), Prop("b", Num(1))>>),
     CallOf("and_all", <<Num(1), Symbol>>),
     CallOf("partial_object", <<Obj(<<Prop("a", Num(1)), Prop("b", with_getter)>>)>>),
     Arr(<<>>), Arr(<<Fn("string"), Num(-1)>>), Arr(<<Fn("string"), Num(1), Str("2")>>),
     Arr(<<Fn("string"), Frac(3, 2)>>),
     Arr(<<Fn("string"), Num(0), Num(1), Num(2)>>),
     CallOf("and", <<>>), CallOf("and_all", <<>>), CallOf("or", <<>>),
     CallOf("tuple", <<>>),
     CallOf("object", <<a_string, bc_strings, Num(0), Num(1), Num(2)>>),
     CallOf("object", <<a_string, abc_strings>>),
     CallOf("object", <<a_string, Null>>),
     CallOf("object", <<a_string, Undefined>>),
     Obj(<<Prop("a", CallOf("or", <<>>))>>)}

\* Schemata that hold a validator function which throws for some values,
\* under every kind of node (after part_000:294, part_002:101)
trimmed == Fn("(s) => s === s.trim()")
Throwing ==
    {Arr(<<trimmed>>),
     Obj(<<Prop("a", trimmed), Prop("b", Num(1))>>),
     CallOf("object", <<Obj(<<Prop("a", trimmed)>>), Obj(<<Prop("b", trimmed)>>)>>),
     CallOf("plain_object", <<Obj(<<Prop("a", trimmed)>>), Obj(<<>>)>>),
     CallOf("partial_object", <<Obj(<<Prop("a", trimmed)>>)>>),
     CallOf("tuple", <<Num(1), trimmed>>),
     CallOf("map", <<re_letters, trimmed>>),
     CallOf("and", <<Fn("number"), trimmed>>),
     CallOf("and_all", <<Num(1), trimmed, Fn("() => 'Error'")>>),
     CallOf("or", <<trimmed, Fn("() => true")>>),
     CallOf("or", <<Num(1), trimmed, Fn("number")>>),
     Obj(<<Prop("a", CallOf("or", <<Arr(<<trimmed>>), Fn("array")>>))>>)}

\* and, and_all and or over every list of 1..MaxSchemata of these variants
Variants ==
    {Num(1), Fn("() => 'Error'"), a_string,
     CallOf("partial_object", <<Obj(<<Prop("b", Num(1))>>)>>)}
Junctions ==
    {CallOf(fn, ss) : fn \in {"and", "and_all", "or"},
                      ss \in SeqsOf(Variants, 1, MaxSchemata)}

SchemaExpressions ==
    Functions \cup Patterns \cup Literals \cup ArraysByExample
    \cup ObjectsByExample \cup Combined \cup Invalid \cup Throwing
    \cup Junctions

----------------------------------------------------------------------------
(* The state machine: the caller evaluates a schema expression, calls      *)
(* validateJSON on a value, and looks at what came back.                   *)

World == [DEBUG |-> DEBUG, calls |-> <<>>]

Init ==
    /\ DEBUG \in BOOLEAN
    /\ pc = "idle"
    /\ expr = Undefined
    /\ schema = Undefined
    /\ value = Undefined
    /\ result = Undefined
    /\ errors = EmptyObject
    /\ calls = <<>>
    /\ thrown = "none"

\* The schema expression is evaluated: the combinators run.
Construct(e) ==
    /\ pc = "idle"
    /\ LET b == Build(e, World) IN
       /\ expr' = e
       /\ schema' = b.val
       /\ thrown' = b.exc
       /\ pc' = IF b.exc = "none" THEN "ready" ELSE "rejected"
    /\ UNCHANGED <<DEBUG, value, result, errors, calls>>

\* validateJSON(schema, v) runs to its return or to the exception.
Validate(v) ==
    /\ pc = "ready"
    /\ LET r == validateJSON(schema, v, World) IN
       /\ value' = v
       /\ result' = r.val
       /\ calls' = r.w.calls
       /\ errors' = IF r.exc = "none" THEN r.w.calls[Len(r.w.calls)].errors
                    ELSE EmptyObject
       /\ thrown' = r.exc
       /\ pc' = IF r.exc = "none" THEN "done" ELSE "thrown"
    /\ UNCHANGED <<DEBUG, expr, schema>>

\* The caller drops the outcome; nothing of the call is kept.
Return ==
    /\ pc \in {"rejected", "done", "thrown"}
    /\ pc' = "idle"
    /\ expr' = Undefined
    /\ schema' = Undefined
    /\ value' = Undefined
    /\ result' = Undefined
    /\ errors' = EmptyObject
    /\ calls' = <<>>
    /\ thrown' = "none"
    /\ UNCHANGED DEBUG

Next ==
    \/ \E e \in SchemaExpressions : Construct(e)
    \/ \E v \in Values : Validate(v)
    \/ Return

Spec == Init /\ [][Next]_vars

----------------------------------------------------------------------------
(* A session: the caller keeps a schema and validates one value after      *)
(* another with it, as the test suite does.  The trace then runs over all   *)
(* the calls of the session, and each call starts in the world the calls   *)
(* before it left behind.                                                  *)

MaxCalls == 3

\* The top-level calls of the session so far (a schema is no part of itself)
TopCalls ==
    Cardinality({i \in 1..Len(calls) :
                    calls[i].ev = "enter" /\ calls[i].schema = schema})

\* One more validateJSON(schema, v), after a call that returned or threw.
Again(v) ==
    /\ pc \in {"done", "thrown"}
    /\ TopCalls < MaxCalls
    /\ LET r == validateJSON(schema, v, [DEBUG |-> DEBUG, calls |-> calls]) IN
       /\ value' = v
       /\ result' = r.val
       /\ calls' = r.w.calls
       /\ errors' = IF r.exc = "none" THEN r.w.calls[Len(r.w.calls)].errors
                    ELSE EmptyObject
       /\ thrown' = r.exc
       /\ pc' = IF r.exc = "none" THEN "done" ELSE "thrown"
    /\ UNCHANGED <<DEBUG, expr, schema>>

SessionSchemas ==
    {Fn("() => 'Error'"),
     Arr(<<Fn("integer"), Num(1), Num(2)>>),
     Obj(<<Prop("a", Fn("string")), Prop("b", Fn("number"))>>),
     CallOf("object", <<a_string, bc_strings>>),
     CallOf("partial_object", <<Obj(<<Prop("a", Num(1))>>)>>),
     CallOf("tuple", <<CallOf("or", <<Num(1), Null>>), Fn("string")>>),
     CallOf("map", <<re_digits, Fn("integer"), Num(1), Num(2)>>),
     CallOf("map", <<re_letters, CallOf("or", <<Num(1), Fn("string")>>)>>),
     CallOf("or", <<Num(1), Str("s"), True>>),
     CallOf("or", <<CallOf("and_all", <<Fn("number"), Num(1)>>), a_string>>),
     CallOf("and", <<Fn("string"), trimmed>>),
     CallOf("and", <<Fn("number"), trimmed>>),
     CallOf("or", <<trimmed, Num(1)>>),
     CallOf("and_all", <<Fn("number"), Fn("() => 'Error'"), Num(1)>>),
     Arr(<<Symbol>>)}

SessionValues ==
    {Num(1), Str("s"), Str(" x "),
     Arr(<<Num(1), Str("a")>>),
     Obj(<<Prop("a", Str("")), Prop("b", Num(1))>>),
     Obj(<<Prop("1", Num(1)), Prop("2", Num(2)), Prop("3", Num(3))>>)}

SessionNext ==
    \/ \E e \in SessionSchemas : Construct(e)
    \/ \E v \in SessionValues : Validate(v)
    \/ \E v \in SessionValues : Again(v)
    \/ Return

SessionSpec == Init /\ [][SessionNext]_vars

----------------------------------------------------------------------------
(* What the claims speak of *)

\* The call of validateJSON has ended, by a return or by an exception.
Called == pc \in {"done", "thrown"}
IsTrue(r) == r.type = "boolean" /\ r.bool
\* The paths of a result of validateJSON: none for true
ResultKeys(r) == IF IsTrue(r) THEN {} ELSE Keys(r)
\* The entries (path, message) of an ErrorMap
Entries(o) == {<<o.props[i].key, o.props[i].val>> : i \in 1..Len(o.props)}
Prefixed(p, K) == {p \o k : k \in K}
\* validateJSON(s, v) on its own
Outcome(s, v) == validateJSON(s, v, World)
Index(i) == "[" \o ToString(i) \o "]"
\* The exits of validateJSON in the trace of the call
Exits == {i \in 1..Len(calls) : calls[i].ev = "exit"}

----------------------------------------------------------------------------
\* C1: validateJSON returns the literal true exactly when its accumulator
\* holds no entry, and otherwise returns the accumulator, which is then not
\* empty; it never returns an empty ErrorMap.  This holds of the top-level
\* call and of every nested call a combinator makes.
C1_TrueIffNoEntries ==
    pc = "done" =>
        /\ IsTrue(result) <=> Len(errors.props) = 0
        /\ ~IsTrue(result) => result = errors /\ Keys(result) # {}
        /\ result # EmptyObject
        /\ \A i \in Exits :
              /\ IsTrue(calls[i].ret) <=> Len(calls[i].errors.props) = 0
              /\ ~IsTrue(calls[i].ret) => calls[i].ret = calls[i].errors
              /\ calls[i].ret # EmptyObject

\* A validator function returned the empty map and the call returned true.
C1_Witness ==
    /\ pc = "done"
    /\ schema = Fn("() => ({})")
    /\ IsTrue(result)
    /\ errors = EmptyObject

----------------------------------------------------------------------------
(* Helpers of the claims below *)

StartsWith(s, p) == Len(s) >= Len(p) /\ SubSeq(s, 1, Len(p)) = p
\* The keys of an ErrorMap that lie at or under path p
Under(o, p) == {k \in Keys(o) : StartsWith(k, p)}
\* value.hasOwnProperty(p) is false or value[p] is undefined
Missing(v, p) == ~HasOwn(v, p) \/ Get(v, p).type = "undefined"
\* validate2 on a fresh accumulator at path p
Node(s, v, p) == validate2(s, v, p, EmptyObject, World)
\* How deep in nested validateJSON calls position i of the trace lies
Depth(i) ==
    Cardinality({j \in 1..(i - 1) : calls[j].ev = "enter"})
    - Cardinality({j \in 1..(i - 1) : calls[j].ev = "exit"})
\* The validateJSON calls made by the top-level schema itself, in order
Children ==
    SelectSeq([i \in 1..Len(calls) |-> i],
              LAMBDA i : calls[i].ev = "enter" /\ Depth(i) = 1)
IsClosure(s, name) == TypeOf(s) = "function" /\ s.fn = name
\* schema[i] against the value, on its own
Sub(i) == Outcome(schema.schemata[i], value)
\* [e], [e, min] or [e, min, max] with min and max non-negative integers
ArrayByExample(s) ==
    /\ plain_array(s)
    /\ s.length \in 1..3
    /\ \A i \in 1..(s.length - 1) : integer(At(s, i)) /\ At(s, i).num >= 0

----------------------------------------------------------------------------
\* C2: for an object-by-example schema and for a validator built by
\* object(required, optional), an object value with at least one undeclared
\* property yields exactly one entry, at the object's own path, and nothing
\* else is checked at the node: no other entry is written and no nested
\* validation call is made.
C2_Declares(k) ==
    IF is_plain_object(schema) THEN HasOwn(schema, k)
    ELSE \/ HasOwn(schema.required_properties, k)
         \/ HasOwn(schema.optional_properties, k)

C2_UnexpectedProperty ==
    (/\ Called
     /\ is_plain_object(schema) \/ IsClosure(schema, "object(...)")
     /\ is_object(value)
     /\ \E k \in Keys(value) : ~C2_Declares(k))
    => /\ pc = "done"
       /\ Keys(errors) = {""}
       /\ Len(errors.props) = 1
       /\ Len(calls) = 2

----------------------------------------------------------------------------
\* C3: for an object-by-example schema and an object value with no
\* undeclared property, every declared property that the value lacks (or
\* holds as undefined) yields the one entry path.prop, and every other
\* declared property is validated at path.prop, so that the entries of the
\* call are those of all the declared properties together.
C3_DeclaredProperties ==
    (/\ Called
     /\ is_plain_object(schema)
     /\ is_object(value)
     /\ \A k \in Keys(value) : HasOwn(schema, k))
    => /\ pc = "done"
       /\ \A p \in Keys(schema) :
             Under(errors, "." \o p) =
                IF Missing(value, p) THEN {"." \o p}
                ELSE Prefixed("." \o p,
                        ResultKeys(Outcome(Get(schema, p), Get(value, p)).val))
       /\ \A k \in Keys(errors) : \E p \in Keys(schema) : StartsWith(k, "." \o p)

----------------------------------------------------------------------------
\* C4: for an array-by-example schema [e], [e, min] or [e, min, max] and an
\* array value, validation succeeds iff the length lies in [min, max]
\* (defaults 0 and unbounded) and every element matches e; a length
\* violation is recorded at path, and in the same call every failing
\* element i is recorded under path[i].
C4_InRange ==
    /\ schema.length > 1 => value.length >= At(schema, 1).num
    /\ schema.length > 2 => value.length <= At(schema, 2).num
C4_Element(i) == Outcome(At(schema, 0), At(value, i)).val
C4_Keys ==
    (IF C4_InRange THEN {} ELSE {""})
    \cup UNION {Prefixed(Index(i), ResultKeys(C4_Element(i))) :
                    i \in 0..(value.length - 1)}

C4_ArrayByExample ==
    (/\ Called
     /\ ArrayByExample(schema)
     /\ array(value)
     /\ \A i \in 0..(value.length - 1) :
           Outcome(At(schema, 0), At(value, i)).exc = "none")
    => /\ pc = "done"
       /\ Keys(errors) = C4_Keys
       /\ IsTrue(result) <=>
             /\ C4_InRange
             /\ \A i \in 0..(value.length - 1) : IsTrue(C4_Element(i))
       /\ Keys(Node(schema, value, ".a").val) = Prefixed(".a", C4_Keys)

\* The length is out of range and an element fails: both are reported.
C4_Witness ==
    /\ pc = "done"
    /\ ArrayByExample(schema) /\ array(value)
    /\ ~C4_InRange
    /\ {"", "[1]"} \subseteq Keys(errors)

----------------------------------------------------------------------------
\* C5: for a literal schema L (null, a string, a number or a boolean),
\* validate(L, v) is true iff v is the same primitive as L, without
\* coercion; a mismatch writes exactly one entry, at the current path.
C5_IsLiteral == schema.type = "null" \/ string(schema) \/ number(schema) \/ boolean(schema)

C5_Literal ==
    (Called /\ C5_IsLiteral)
    => /\ pc = "done"
       /\ IsTrue(result) <=> value = schema
       /\ ~IsTrue(result) => Keys(errors) = {""} /\ Len(errors.props) = 1
       /\ Keys(Node(schema, value, ".a").val) = IF value = schema THEN {} ELSE {".a"}

\* 0 against "0": no match, one entry at the root path.
C5_Witness ==
    /\ pc = "done"
    /\ schema = Num(0)
    /\ value = Str("0")
    /\ ~IsTrue(result)
    /\ Keys(errors) = {""}

----------------------------------------------------------------------------
\* C6: for a regular-expression schema, a value that is not a string never
\* matches, and a string matches iff the pattern is found somewhere in it;
\* either failure writes exactly one entry, at the current path.
C6_Found ==
    \E i \in 0..Len(value.str) :
        /\ schema.anchorStart => i = 0
        /\ MatchesAt(value.str, schema, i)

C6_RegExp ==
    (Called /\ schema.type = "regexp")
    => /\ pc = "done"
       /\ IsTrue(result) <=> string(value) /\ C6_Found
       /\ ~IsTrue(result) => Keys(errors) = {""} /\ Len(errors.props) = 1
       /\ Keys(Node(schema, value, ".a").val) =
             IF string(value) /\ C6_Found THEN {} ELSE {".a"}

\* The pattern is found at the very start of the string.
C6_Witness ==
    /\ pc = "done"
    /\ schema.type = "regexp"
    /\ string(value)
    /\ MatchesAt(value.str, schema, 0)
    /\ IsTrue(result)

----------------------------------------------------------------------------
\* C7: merging what a validator function at path p returned writes nothing
\* for true or an empty ErrorMap, the empty string at p for false, the
\* string at p for a string, and for an ErrorMap each message at p
\* concatenated with its sub-path; so the errors of a validator under an
\* array appear at the composed path, such as "[1][1]".
C7_Merged(p, res) ==
    IF IsTrue(res) THEN {}
    ELSE IF boolean(res) THEN {<<p, Str("")>>}
    ELSE IF string(res) THEN {<<p, res>>}
    ELSE {<<p \o e[1], e[2]>> : e \in Entries(res)}
C7_Returned(f, v) == Call(f, Undefined, v, World)
C7_Mergeable(r) ==
    r.exc = "none" /\ (boolean(r.val) \/ string(r.val) \/ is_object(r.val))

C7_MergeResult ==
    /\ (Called /\ TypeOf(schema) = "function"
               /\ C7_Mergeable(C7_Returned(schema, value)))
       => /\ pc = "done"
          /\ Entries(errors) = C7_Merged("", C7_Returned(schema, value).val)
          /\ \A p \in {".a", "[0]"} :
                Entries(Node(schema, value, p).val)
                    = C7_Merged(p, C7_Returned(schema, value).val)
    /\ (Called /\ ArrayByExample(schema) /\ TypeOf(At(schema, 0)) = "function"
               /\ array(value)
               /\ \A i \in 0..(value.length - 1) :
                     C7_Mergeable(C7_Returned(At(schema, 0), At(value, i))))
       => /\ pc = "done"
          /\ \A i \in 0..(value.length - 1) :
                {e \in Entries(errors) : StartsWith(e[1], Index(i))}
                    = C7_Merged(Index(i), C7_Returned(At(schema, 0), At(value, i)).val)

\* A tuple validator under an array reported its second element.
C7_Witness ==
    /\ pc = "done"
    /\ ArrayByExample(schema)
    /\ IsClosure(At(schema, 0), "tuple(...)")
    /\ "[1][1]" \in Keys(errors)

----------------------------------------------------------------------------
\* C8: and(s1..sn) validates the value against the schemas in order and
\* stops at the first that does not match: the result is that schema's
\* result verbatim, no later schema is evaluated against the value, and the
\* result is true only if all n schemas match.
C8_Failing == {i \in 1..Len(schema.schemata) : ~IsTrue(Sub(i).val)}
C8_Last ==
    IF C8_Failing = {} THEN Len(schema.schemata)
    ELSE CHOOSE i \in C8_Failing : \A j \in C8_Failing : i <= j

C8_AndShortCircuits ==
    (/\ Called
     /\ IsClosure(schema, "and(...)")
     /\ \A i \in 1..C8_Last : Sub(i).exc = "none")
    => /\ pc = "done"
       /\ Len(Children) = C8_Last
       /\ \A i \in 1..Len(Children) :
             /\ calls[Children[i]].schema = schema.schemata[i]
             /\ calls[Children[i]].value = value
       /\ result = IF C8_Failing = {} THEN True ELSE Sub(C8_Last).val
       /\ IsTrue(result) <=> C8_Failing = {}

\* and stopped before its last schema.
C8_Witness ==
    /\ pc = "done"
    /\ IsClosure(schema, "and(...)")
    /\ ~IsTrue(result)
    /\ Len(Children) < Len(schema.schemata)

----------------------------------------------------------------------------
\* C9: or(s1..sn) matches a value iff at least one si matches it; when none
\* matches the result is the single entry of or itself at the relative
\* path "", and nothing that a variant reported is in the result.
C9_Or ==
    (/\ Called
     /\ IsClosure(schema, "or(...)")
     /\ \A i \in 1..Len(schema.schemata) : Sub(i).exc = "none")
    => /\ pc = "done"
       /\ IsTrue(result) <=> \E i \in 1..Len(schema.schemata) : IsTrue(Sub(i).val)
       /\ ~IsTrue(result) =>
             Entries(result) = {<<"", Msg(World, "or: value does not match any variant")>>}

\* No variant matched, and a variant had reported at a path of its own.
C9_Witness ==
    /\ pc = "done"
    /\ IsClosure(schema, "or(...)")
    /\ ~IsTrue(result)
    /\ \E i \in 1..Len(schema.schemata) : ResultKeys(Sub(i).val) # {""}

----------------------------------------------------------------------------
\* C10: and_all(s1..sn) evaluates every schema against the value, also
\* after one has failed; the keys of its result are the union of the keys
\* of the results validate(si, v), and the result is true iff every si
\* matches.
C10_AndAll ==
    (/\ Called
     /\ IsClosure(schema, "and_all(...)")
     /\ \A i \in 1..Len(schema.schemata) : Sub(i).exc = "none")
    => /\ pc = "done"
       /\ Len(Children) = Len(schema.schemata)
       /\ \A i \in 1..Len(Children) :
             /\ calls[Children[i]].schema = schema.schemata[i]
             /\ calls[Children[i]].value = value
       /\ ResultKeys(result) =
             UNION {ResultKeys(Sub(i).val) : i \in 1..Len(schema.schemata)}
       /\ IsTrue(result) <=> \A i \in 1..Len(schema.schemata) : IsTrue(Sub(i).val)

\* The first schema failed and a later one added a path of its own.
C10_Witness ==
    /\ pc = "done"
    /\ IsClosure(schema, "and_all(...)")
    /\ ~IsTrue(Sub(1).val)
    /\ ResultKeys(Sub(1).val) # Keys(errors)

----------------------------------------------------------------------------
\* C11: map validates every key before any value.  If a key of the object
\* fails keySchema the result is the single entry at the relative path "",
\* the keys after the first failing one are not looked at and valueSchema
\* is applied to no value: the nested validation calls are those of the
\* keys up to the failing one, in the object's order.  If no key fails, the
\* calls of all the keys come before anything else.
C11_KeyFails(k) == ~IsTrue(Outcome(schema.key_schema, Str(k)).val)
C11_FailingKeys == {i \in 1..Len(ForIn(value)) : C11_KeyFails(ForIn(value)[i])}
C11_KeyCalls(n) ==
    /\ Len(Children) >= n
    /\ \A i \in 1..n :
          /\ calls[Children[i]].schema = schema.key_schema
          /\ calls[Children[i]].value = Str(ForIn(value)[i])

C11_MapKeysFirst ==
    (Called /\ IsClosure(schema, "map(...)") /\ is_object(value))
    => IF C11_FailingKeys = {}
       THEN C11_KeyCalls(Len(ForIn(value)))
       ELSE /\ pc = "done"
            /\ Keys(errors) = {""}
            /\ Len(errors.props) = 1
            /\ C11_KeyCalls(CHOOSE i \in C11_FailingKeys :
                               \A j \in C11_FailingKeys : i <= j)
            /\ Len(Children) = CHOOSE i \in C11_FailingKeys :
                                  \A j \in C11_FailingKeys : i <= j

\* A key that matches came first, a key failed, and a value of the object
\* does not match valueSchema: only the key is reported.
C11_Witness ==
    /\ pc = "done"
    /\ IsClosure(schema, "map(...)") /\ is_object(value)
    /\ C11_FailingKeys # {} /\ 1 \notin C11_FailingKeys
    /\ \E k \in Keys(value) :
          ~IsTrue(Outcome(schema.value_schema, Get(value, k)).val)
    /\ Keys(errors) = {""}

----------------------------------------------------------------------------
\* C12: for map(keySchema, valueSchema, minEntries, maxEntries) and an
\* object whose keys all match keySchema, every value is validated at the
\* relative path "." + key; the validator matches iff every value matches
\* and the number of entries lies in [minEntries, maxEntries]; a wrong
\* number of entries is reported at "" beside the entries of the values.
C12_Value(k) == Outcome(schema.value_schema, Get(value, k))
C12_InRange ==
    /\ Len(ForIn(value)) >= schema.min_entries.num
    /\ Len(ForIn(value)) <= schema.max_entries.num
C12_Keys ==
    (IF C12_InRange THEN {} ELSE {""})
    \cup UNION {Prefixed("." \o k, ResultKeys(C12_Value(k).val)) : k \in Keys(value)}

C12_MapValues ==
    (/\ Called
     /\ IsClosure(schema, "map(...)")
     /\ is_object(value)
     /\ \A k \in Keys(value) : ~C11_KeyFails(k) /\ C12_Value(k).exc = "none")
    => /\ pc = "done"
       /\ Keys(errors) = C12_Keys
       /\ IsTrue(result) <=>
             C12_InRange /\ \A k \in Keys(value) : IsTrue(C12_Value(k).val)

\* Too many entries and a value that does not match: both are reported.
C12_Witness ==
    /\ pc = "done"
    /\ IsClosure(schema, "map(...)") /\ is_object(value)
    /\ Len(ForIn(value)) > schema.max_entries.num
    /\ \E k \in Keys(value) : {"", "." \o k} \subseteq Keys(errors)

----------------------------------------------------------------------------
\* C13: tuple(s1..sn) matches only arrays of exactly n elements whose
\* element i matches si.  A value that is not an array, or an array of
\* another length, yields the single entry at the relative path "" and no
\* element is checked; otherwise each failing element i is reported under
\* "[i]".
C13_Fits == array(value) /\ value.length = Len(schema.schemata)
C13_Element(i) == Outcome(schema.schemata[i + 1], At(value, i))

C13_Tuple ==
    (/\ Called
     /\ IsClosure(schema, "tuple(...)")
     /\ C13_Fits => \A i \in 0..(value.length - 1) : C13_Element(i).exc = "none")
    => /\ pc = "done"
       /\ IF C13_Fits
          THEN /\ Keys(errors) =
                     UNION {Prefixed(Index(i), ResultKeys(C13_Element(i).val)) :
                                i \in 0..(value.length - 1)}
               /\ IsTrue(result) <=>
                     \A i \in 0..(value.length - 1) : IsTrue(C13_Element(i).val)
          ELSE /\ Keys(errors) = {""}
               /\ Len(errors.props) = 1
               /\ Len(calls) = 2
               /\ ~IsTrue(result)

\* An array of the wrong length whose first element does not match s1: the
\* length alone is reported.
C13_Witness ==
    /\ pc = "done"
    /\ IsClosure(schema, "tuple(...)")
    /\ array(value) /\ value.length > 0 /\ value.length # Len(schema.schemata)
    /\ ~IsTrue(C13_Element(0).val)
    /\ Keys(errors) = {""}

----------------------------------------------------------------------------
\* C14: for object(required, optional, minOpt, maxOpt) and an object value
\* with no undeclared property, every optional property that the value has
\* is validated at "." + prop and counted, whether or not it matches; an
\* entry is written at the relative path "" iff the count is outside
\* [minOpt, maxOpt], beside the entries of the failing properties.
C14_Present == {p \in Keys(schema.optional_properties) : HasOwn(value, p)}
C14_Optional(p) == Outcome(Get(schema.optional_properties, p), Get(value, p))
C14_InRange ==
    /\ Cardinality(C14_Present) >= schema.min_optional_properties.num
    /\ Cardinality(C14_Present) <= schema.max_optional_properties.num

C14_OptionalProperties ==
    (/\ Called
     /\ IsClosure(schema, "object(...)")
     /\ is_object(value)
     /\ \A k \in Keys(value) : C2_Declares(k)
     /\ \A p \in C14_Present : C14_Optional(p).exc = "none")
    => /\ pc = "done"
       /\ \A p \in Keys(schema.optional_properties) :
             Under(errors, "." \o p) =
                IF p \in C14_Present
                THEN Prefixed("." \o p, ResultKeys(C14_Optional(p).val))
                ELSE {}
       /\ "" \in Keys(errors) <=> ~C14_InRange

----------------------------------------------------------------------------
\* C15: partial_object(props) fails with a single entry for a value that is
\* not an object.  For an object value the properties that props does not
\* declare are ignored and cause no entry, each declared property that is
\* absent is reported at "." + prop, and each declared property that is
\* present is validated at "." + prop.
C15_Property(p) == Outcome(Get(schema.properties, p), Get(value, p))

C15_PartialObject ==
    (/\ Called
     /\ IsClosure(schema, "partial_object(...)")
     /\ is_object(value) =>
           \A p \in Keys(schema.properties) :
               ~Missing(value, p) => C15_Property(p).exc = "none")
    => /\ pc = "done"
       /\ IF ~is_object(value)
          THEN Keys(errors) = {""} /\ Len(errors.props) = 1
          ELSE /\ \A p \in Keys(schema.properties) :
                     Under(errors, "." \o p) =
                        IF Missing(value, p) THEN {"." \o p}
                        ELSE Prefixed("." \o p, ResultKeys(C15_Property(p).val))
               /\ \A k \in Keys(errors) :
                     \E p \in Keys(schema.properties) : StartsWith(k, "." \o p)

----------------------------------------------------------------------------
\* C16: the optional-properties argument of object(...) is optional:
\* object(required, null), and object(required, undefined) with the
\* mapping absent, return a validator, and that validator gives for every
\* value the result of object(required, {}).
C16_OptionalLeftOut ==
    /\ expr.type = "call"
    /\ expr.fn = "object"
    /\ Len(expr.args) = 2
    /\ expr.args[2].type \in {"null", "undefined"}
C16_WithNoOptional ==
    Build(CallOf("object", <<expr.args[1], EmptyObject>>), World).val

C16_OptionalIsOptional ==
    C16_OptionalLeftOut
    => /\ pc # "rejected"
       /\ TypeOf(schema) = "function"
       /\ Called =>
             /\ pc = "done"
             /\ result = Outcome(C16_WithNoOptional, value).val

----------------------------------------------------------------------------
\* C17: a combinator raises for a configuration error when it is called,
\* before any value is validated, and returns no validator: tuple, and,
\* and_all and or called with no schema, object called with more than four
\* arguments, and object called with a property that is both required and
\* optional.
C17_Misconfigured(e) ==
    /\ e.type = "call"
    /\ \/ e.fn \in {"tuple", "and", "and_all", "or"} /\ Len(e.args) = 0
       \/ e.fn = "object" /\ Len(e.args) > 4
       \/ /\ e.fn = "object"
          /\ Len(e.args) \in 2..4
          /\ is_object(e.args[1]) /\ is_object(e.args[2])
          /\ Keys(e.args[1]) \cap Keys(e.args[2]) # {}

C17_ConfigurationErrors ==
    C17_Misconfigured(expr)
    => /\ pc = "rejected"
       /\ thrown # "none"
       /\ schema.type = "undefined"
       /\ calls = <<>>

----------------------------------------------------------------------------
\* C18: when validation reaches an array-by-example schema whose length is
\* outside 1..3, or whose min or max is not a non-negative integer, it
\* raises for every value, arrays or not, and yields no ErrorMap.
C18_SchemaCheckedFirst ==
    (Called /\ plain_array(schema) /\ ~ArrayByExample(schema))
    => /\ pc = "thrown"
       /\ StartsWith(thrown, "Invalid schema at path ''")

----------------------------------------------------------------------------
\* C19: whenever validation reaches a schema node that is none of function,
\* regular expression, null, string, number, boolean, plain array or plain
\* object, or a validator function returns something other than true,
\* false, a string or an object, validate raises for every value and
\* returns neither true nor an ErrorMap: the whole call is aborted, also
\* when the node lies under an array, an object or a combinator and other
\* nodes have failed.
C19_Unsupported(s) ==
    ~(\/ TypeOf(s) = "function"
      \/ s.type = "regexp"
      \/ s.type = "null" \/ string(s) \/ number(s) \/ boolean(s)
      \/ plain_array(s)
      \/ is_plain_object(s))
C19_InvalidResult(f, v) ==
    /\ TypeOf(f) = "function"
    /\ C7_Returned(f, v).exc = "none"
    /\ ~C7_Mergeable(C7_Returned(f, v))
C19_Raises(s, v) == C19_Unsupported(s) \/ C19_InvalidResult(s, v)
\* The top-level schema reaches such a node one level down.
C19_Reached ==
    \/ C19_Raises(schema, value)
    \/ /\ ArrayByExample(schema) /\ array(value)
       /\ \E i \in 0..(value.length - 1) : C19_Raises(At(schema, 0), At(value, i))
    \/ /\ is_plain_object(schema) /\ is_object(value)
       /\ \A k \in Keys(value) : HasOwn(schema, k)
       /\ \E p \in Keys(schema) :
             ~Missing(value, p) /\ C19_Raises(Get(schema, p), Get(value, p))
    \/ /\ IsClosure(schema, "partial_object(...)") /\ is_object(value)
       /\ \E p \in Keys(schema.properties) :
             ~Missing(value, p) /\ C19_Raises(Get(schema.properties, p), Get(value, p))
    \/ /\ IsClosure(schema, "and_all(...)")
       /\ \E i \in 1..Len(schema.schemata) : C19_Raises(schema.schemata[i], value)

C19_InvalidSchemaRaises ==
    (Called /\ C19_Reached)
    => /\ pc = "thrown"
       /\ thrown # "none"
       /\ result.type = "undefined"
       /\ errors = EmptyObject

\* An unsupported node under an object, beside a property that fails.
C19_Witness ==
    /\ pc = "thrown"
    /\ is_plain_object(schema) /\ is_object(value)
    /\ \E p \in Keys(schema) : ~Missing(value, p) /\ C19_Unsupported(Get(schema, p))
    /\ \E p \in Keys(schema) :
          /\ ~Missing(value, p) /\ ~C19_Unsupported(Get(schema, p))
          /\ ~IsTrue(Outcome(Get(schema, p), Get(value, p)).val)
    /\ StartsWith(thrown, "Invalid schema at path '.a'")

----------------------------------------------------------------------------
\* C20: value mismatches never raise.  For every well-formed schema
\* (supported shapes, validly configured combinators, validator functions
\* that do not throw and return valid results) and every decoded-JSON
\* value, objects that own a property named "hasOwnProperty" included,
\* validate returns true or an ErrorMap and does not throw.
C20_Total ==
    {"() => true", "() => false", "() => 'Error'", "() => ({})", "(v) => v === 13",
     "boolean", "number", "integer", "string", "array", "object"}
RECURSIVE C20_WellFormed(_)
C20_WellFormed(s) ==
    IF TypeOf(s) = "function"
    THEN CASE s.fn \in C20_Total -> TRUE
           [] s.fn = "object(...)" ->
                /\ \A p \in Keys(s.required_properties) :
                      C20_WellFormed(Get(s.required_properties, p))
                /\ \A p \in Keys(s.optional_properties) :
                      C20_WellFormed(Get(s.optional_properties, p))
           [] s.fn = "plain_object(...)" -> C20_WellFormed(s.schema)
           [] s.fn = "partial_object(...)" ->
                \A p \in Keys(s.properties) : C20_WellFormed(Get(s.properties, p))
           [] s.fn \in {"tuple(...)", "and(...)", "and_all(...)", "or(...)"} ->
                \A i \in 1..Len(s.schemata) : C20_WellFormed(s.schemata[i])
           [] s.fn = "map(...)" ->
                C20_WellFormed(s.key_schema) /\ C20_WellFormed(s.value_schema)
           [] OTHER -> FALSE
    ELSE IF s.type = "regexp" \/ s.type = "null" \/ string(s) \/ number(s) \/ boolean(s)
    THEN TRUE
    ELSE IF plain_array(s) THEN ArrayByExample(s) /\ C20_WellFormed(At(s, 0))
    ELSE IF is_plain_object(s) THEN \A p \in Keys(s) : C20_WellFormed(Get(s, p))
    ELSE FALSE
\* What JSON.parse can return
RECURSIVE C20_Json(_)
C20_Json(v) ==
    \/ v.type = "null" \/ boolean(v) \/ number(v) \/ string(v)
    \/ /\ plain_array(v) \/ is_plain_object(v)
       /\ \A i \in 1..Len(v.props) : C20_Json(v.props[i].val)

C20_NeverRaises ==
    (Called /\ C20_WellFormed(schema) /\ C20_Json(value))
    => /\ pc = "done"
       /\ IsTrue(result) \/ is_object(result)

----------------------------------------------------------------------------
\* C21: an exception thrown by a user-supplied validator function leaves the
\* top-level call unchanged, through every enclosing node and combinator:
\* the call throws that very exception, nothing runs after the throw, and
\* neither true nor an ErrorMap is returned.  In particular or, when a
\* variant throws before any variant has matched, throws too and does not
\* go on to the next variant.
C21_Raised == {i \in 1..Len(calls) : calls[i].ev = "throw"}
\* The first variant of or that matches or throws, if there is one
C21_Decisive ==
    {i \in 1..Len(schema.schemata) :
        /\ Sub(i).exc # "none" \/ IsTrue(Sub(i).val)
        /\ \A j \in 1..(i - 1) : Sub(j).exc = "none" /\ ~IsTrue(Sub(j).val)}

C21_ExceptionPropagates ==
    /\ \A i \in C21_Raised :
          /\ pc = "thrown"
          /\ thrown = calls[i].exc
          /\ i = Len(calls)
          /\ result.type = "undefined"
          /\ errors = EmptyObject
    /\ (Called /\ IsClosure(schema, "or(...)"))
       => \A i \in C21_Decisive :
             Sub(i).exc # "none" => pc = "thrown" /\ thrown = Sub(i).exc

\* A variant of or threw, and a later variant matches the value.
C21_Witness ==
    /\ pc = "thrown"
    /\ IsClosure(schema, "or(...)")
    /\ C21_Raised # {}
    /\ StartsWith(thrown, "TypeError")
    /\ \E i \in 1..Len(schema.schemata) : Sub(i).exc = "none" /\ IsTrue(Sub(i).val)

----------------------------------------------------------------------------
\* C22: the verbosity mode changes the text of the messages only.  For every
\* schema and value, validateJSON in the other mode ends the same way:
\* it throws the same exception or returns as well, it returns true in one
\* mode iff in the other, and a failure has the same set of paths in both;
\* so it is for tuple, which returns false in one mode and a string in the
\* other.
C22_OtherMode == validateJSON(schema, value, [World EXCEPT !.DEBUG = ~DEBUG])

C22_VerbosityChangesTextOnly ==
    Called
    => /\ C22_OtherMode.exc = thrown
       /\ pc = "done" =>
             /\ IsTrue(result) <=> IsTrue(C22_OtherMode.val)
             /\ ResultKeys(result) = ResultKeys(C22_OtherMode.val)
             /\ \A k \in ResultKeys(result) :
                   string(Get(result, k)) /\ string(Get(C22_OtherMode.val, k))

\* A tuple validator against an array of the wrong length: false in this
\* mode, a string in the other, the same single path in both.
C22_Witness ==
    /\ pc = "done"
    /\ ~DEBUG
    /\ IsClosure(schema, "tuple(...)")
    /\ array(value)
    /\ C7_Returned(schema, value).val = False
    /\ string(Call(schema, Undefined, value, [World EXCEPT !.DEBUG = TRUE]).val)
    /\ Keys(result) = {""}
    /\ Get(result, "") # Get(C22_OtherMode.val, "")

----------------------------------------------------------------------------
\* C23: no state is carried between validation calls.  Whatever calls came
\* before it in the session, the nested calls of and, and_all, or and map
\* among them, and whether they returned or threw, validateJSON(S, V) ends
\* as it does on its own; and so does every call of the trace: what it
\* returned and the accumulator it ended with are those of the same call on
\* its own, so that no accumulator holds an entry of another call.
C23_Events(a, b, ev) == Cardinality({k \in (a + 1)..(b - 1) : calls[k].ev = ev})
\* The entry of the call that left at position j of the trace
C23_Enter(j) ==
    CHOOSE i \in 1..(j - 1) :
        /\ calls[i].ev = "enter"
        /\ C23_Events(i, j, "enter") = C23_Events(i, j, "exit")
        /\ \A k \in (i + 1)..(j - 1) :
              calls[k].ev = "enter"
              => C23_Events(k, j, "enter") # C23_Events(k, j, "exit")
C23_Alone(j) == Outcome(calls[C23_Enter(j)].schema, calls[C23_Enter(j)].value)

C23_NoStateCarried ==
    Called
    => /\ thrown = Outcome(schema, value).exc
       /\ result = Outcome(schema, value).val
       /\ \A j \in Exits :
             /\ C23_Alone(j).exc = "none"
             /\ calls[j].ret = C23_Alone(j).val
             /\ calls[j].errors
                   = C23_Alone(j).w.calls[Len(C23_Alone(j).w.calls)].errors

\* The third call of a session: the calls before it failed and threw, and
\* this one returns true after a nested call of its own.
C23_Witness ==
    /\ pc = "done"
    /\ TopCalls = 3
    /\ IsTrue(result)
    /\ Len(calls) > 6
    /\ \E j \in Exits : ~IsTrue(calls[j].ret)
    /\ C21_Raised # {}

----------------------------------------------------------------------------
\* C24: validate2(schema, value, path, accumulator) writes under path only.
\* Every key it adds starts with path, every entry whose key does not start
\* with path is left as it was, and no entry is removed: entries are added
\* or overwritten.  This holds of what validate2 writes itself and of what
\* it writes through recursion and through merging a validator's result.
C24_Paths == {"", ".a", "[0]"}
\* An accumulator that earlier nodes have written to
C24_Before ==
    Obj(<<Prop("", Str("before")), Prop(".a", Str("before")),
          Prop(".b", Str("before")), Prop("[0]", Str("before")),
          Prop("[1]", Str("before")), Prop(".a.b", Str("before"))>>)
C24_After(p) == validate2(schema, value, p, C24_Before, World)

C24_Frame(p, after) ==
    after.exc = "none"
    => /\ \A k \in Keys(C24_Before) :
             /\ k \in Keys(after.val)
             /\ ~StartsWith(k, p) => Get(after.val, k) = Get(C24_Before, k)
       /\ \A k \in Keys(after.val) \ Keys(C24_Before) : StartsWith(k, p)
       /\ Len(after.val.props) = Cardinality(Keys(after.val))

C24_WritesUnderPath ==
    Called => \A p \in C24_Paths : C24_Frame(p, C24_After(p))

\* An array by example at path ".a": the length is reported over the entry
\* that was at ".a", an element adds ".a[1]", and the entry at ".b" stays.
C24_Witness ==
    /\ pc = "done"
    /\ ArrayByExample(schema) /\ array(value)
    /\ ~C4_InRange
    /\ C24_After(".a").exc = "none"
    /\ Get(C24_After(".a").val, ".a") # Str("before")
    /\ ".a[1]" \in Keys(C24_After(".a").val)
    /\ Get(C24_After(".a").val, ".b") = Str("before")

----------------------------------------------------------------------------
\* C25: an object-by-example schema S and the validator object(S, {}) are
\* equivalent.  object(S, {}) returns a validator, and for every value the
\* two end alike: both throw the same exception or both return, one
\* returns true iff the other does, and on failure both ErrorMaps have the
\* same set of paths.
C25_Object == object(<<schema, EmptyObject>>, World)
C25_Validated == Outcome(C25_Object.val, value)
C25_Alike(other) ==
    /\ other.exc = thrown
    /\ pc = "done" =>
          /\ IsTrue(result) <=> IsTrue(other.val)
          /\ ResultKeys(result) = ResultKeys(other.val)

C25_ObjectByExampleIsObject ==
    (Called /\ is_plain_object(schema))
    => /\ C25_Object.exc = "none"
       /\ IsClosure(C25_Object.val, "object(...)")
       /\ C25_Alike(C25_Validated)

\* One declared property is missing and another does not match: both
\* schemata report the two paths.
C25_Witness ==
    /\ pc = "done"
    /\ is_plain_object(schema) /\ is_object(value)
    /\ \E p, q \in Keys(schema) :
          /\ p # q
          /\ Missing(value, p) /\ ~Missing(value, q)
          /\ {"." \o p, "." \o q} \subseteq Keys(errors)
    /\ Keys(C25_Validated.val) = Keys(errors)

----------------------------------------------------------------------------
\* C26: for schemas s1..sn of which none throws on the value,
\* and(s1..sn) matches the value iff and_all(s1..sn) does, and when they
\* fail every path that and reports is reported by and_all.
C26_And == Outcome(and(schema.schemata, World).val, value)
C26_AndAll == Outcome(and_all(schema.schemata, World).val, value)

C26_AndWithinAndAll ==
    (/\ Called
     /\ IsClosure(schema, "and(...)") \/ IsClosure(schema, "and_all(...)")
     /\ \A i \in 1..Len(schema.schemata) : Sub(i).exc = "none")
    => /\ pc = "done"
       /\ result = IF IsClosure(schema, "and(...)") THEN C26_And.val
                   ELSE C26_AndAll.val
       /\ C26_And.exc = "none" /\ C26_AndAll.exc = "none"
       /\ IsTrue(C26_And.val) <=> IsTrue(C26_AndAll.val)
       /\ ResultKeys(C26_And.val) \subseteq ResultKeys(C26_AndAll.val)

\* and stops at its first schema; and_all reports a path of the second too.
C26_Witness ==
    /\ pc = "done"
    /\ IsClosure(schema, "and(...)")
    /\ \A i \in 1..Len(schema.schemata) : Sub(i).exc = "none"
    /\ ~IsTrue(result)
    /\ Keys(result) = ResultKeys(Sub(1).val)
    /\ Keys(result) # ResultKeys(C26_AndAll.val)
    /\ Keys(result) \subseteq ResultKeys(C26_AndAll.val)

====
